---- MODULE Spec2Model ----
(***************************************************************************)
(* A model of the SDK reference resolver of tecton-mcp:                    *)
(*   utils/sdk_introspector.py  get_sdk_definitions, format_sdk_definitions *)
(*   tecton_utils.py            APIGraphBuilder, is_tecton_type             *)
(*   utils/copilot.py           _FuncOrClass.from_expressions               *)
(*   tools/api_reference_tools.py  _add_dependencies, get_full_sdk_reference*)
(* The host SDK (the modules tecton, tecton.types and                      *)
(* tecton.aggregation_functions) is the environment: a table of module     *)
(* attributes, each bound to an object with a __name__, a kind, a          *)
(* __module__ and type hints.                                              *)
(***************************************************************************)
EXTENDS Integers, Sequences, FiniteSets, TLC

VARIABLES
    sdk,                  \* the imported SDK modules: module -> (attribute -> object)
    graph,                \* builder.graph, built when api_reference_tools is imported
    cache,                \* the lru_cache of get_sdk_definitions
    pc,                   \* "idle"; "closure" while a call walks the graph; "done"
                          \* when it has returned and the caller holds the text;
                          \* "error" when it has raised
    filter_list,          \* the argument of the call
    expanded_filter,      \* the set expanded_filter of the call
    items_to_check_deps,  \* the items of list(expanded_filter) the loop of line 71
                          \* has not reached yet
    stack,                \* the frames of _add_dependencies, innermost last
    ret,                  \* the text the call returned (<<>> before it returns)
    prev,                 \* the text the caller got from the call before, when it
                          \* repeats a request
    walked,               \* the names whose dependency list the call has entered
    rewalked,             \* the names whose dependency list it has entered again
    import_status,        \* the import of api_reference_tools, whose line 9 runs
                          \* APIGraphBuilder(): "unbuilt", "built" or "raised"
    threads,              \* the threads that call get_sdk_definitions: for each its
                          \* position in the lru_cache wrapper and in the scan
    runs,                 \* how many times the body of get_sdk_definitions was entered
    cache_obj,            \* which run of the body made the tuple the cache holds
                          \* (0 when it holds none)
    reg,                  \* a run of register_tecton_feature_service_as_tools
    bc,                   \* a call of APIGraphBuilder.build_code: its argument, the
                          \* frames of _build_code and the dict code
    repo,                 \* utils/repo_utils.py: _CLONED_REPOS, the _resolved field
                          \* of each DirectoryConfig, and what the last call did
    docs,                 \* a run of _resolve_docs_db_path
    examples,             \* a run of load_example_code_snippet_index
    test                  \* a run of IntegrationTestRunner.run_test_case

\* the state of a call of get_full_sdk_reference
call_vars == <<pc, filter_list, expanded_filter, items_to_check_deps, stack, ret,
               prev, walked, rewalked>>

vars == <<sdk, graph, cache, pc, filter_list, expanded_filter,
          items_to_check_deps, stack, ret, prev, walked, rewalked,
          import_status, threads, runs, cache_obj, reg,
          bc, repo, docs, examples, test>>

\* the state of the utilities beside the resolver and the builds
tool_vars == <<bc, repo, docs, examples, test>>

\* what a call of get_full_sdk_reference has no access to
host_vars == <<import_status, threads, reg, bc, repo, docs, examples, test>>

(***************************************************************************)
(* Bounds                                                                  *)
(***************************************************************************)
\* the longest request list a call is given
MaxReq == 2

\* the number of threads that call get_sdk_definitions
MaxThreads == 2

\* the most feature services a workspace lists
MaxServices == 2

\* the interpreter's recursion limit, scaled to the model: the deepest nesting of
\* _add_dependencies frames before RecursionError is raised
MaxDepth == 8

(***************************************************************************)
(* Names and string tests.  Python orders str by code point: upper case    *)
(* letters, then '_', then lower case letters.  NameOrder lists every name *)
(* of the model in that order.                                             *)
(***************************************************************************)
NameOrder ==
    << "A", "Aggregate", "B", "BatchFeatureView", "C", "Field",
       "NotARealSymbol", "RealtimeFeatureView", "StreamFeatureView",
       "__version__", "batch_feature_view", "get_feature_view",
       "last_distinct", "materialization_context", "realtime_feature_view",
       "stream_feature_view" >>

Rank(n) == CHOOSE i \in 1..Len(NameOrder) : NameOrder[i] = n

\* a < b on str
StrLess(a, b) == Rank(a) < Rank(b)

\* name.startswith('_')
StartsWithUnderscore(n) == n \in {"__version__"}

\* m.startswith('tecton')
StartsWithTecton(m) ==
    m \in {"tecton", "tecton.types", "tecton.aggregation_functions",
           "tecton.framework.feature_view", "tecton.framework.configs",
           "tecton_core.materialization_context"}

\* m.startswith("tecton.")
StartsWithTectonDot(m) ==
    m \in {"tecton.types", "tecton.aggregation_functions",
           "tecton.framework.feature_view", "tecton.framework.configs"}

\* sorted(S) for a set of names: the names of S in the order of NameOrder
Sorted(S) == SelectSeq(NameOrder, LAMBDA n : n \in S)

\* the elements of a sequence
Range(s) == {s[i] : i \in 1..Len(s)}

\* sequences over S of length at most n
SeqsUpTo(S, n) == UNION {[1..k -> S] : k \in 0..n}

(***************************************************************************)
(* The SDK                                                                 *)
(***************************************************************************)
\* a type annotation: a plain type, typing.Union[args], or the types.UnionType
\* that "a | b" evaluates to, which has __args__ and no __origin__
Plain(n, m) == [origin |-> "", name |-> n, module |-> m, args |-> <<>>]
Union(a, b) == [origin |-> "Union", name |-> "Union", module |-> "typing",
                args |-> <<a, b>>]
UnionType(a, b) == [origin |-> "", name |-> "UnionType", module |-> "types",
                    args |-> <<a, b>>]

TStr       == Plain("str", "builtins")
TA         == Plain("A", "tecton")
TB         == Plain("B", "tecton")
TC         == Plain("C", "tecton")
TField     == Plain("Field", "tecton.types")
TAggregate == Plain("Aggregate", "tecton.framework.configs")
TBFV       == Plain("BatchFeatureView", "tecton.framework.feature_view")

\* an object: kind is "class", "function" or "other"; hints is what
\* get_type_hints gives (of __init__ for a class), 'return' included; src_ok
\* tells whether inspect.getsource finds its source, hints_ok whether
\* get_type_hints resolves its annotations
Object(n, k, m, h) ==
    [name |-> n, kind |-> k, module |-> m, enum |-> FALSE, hints |-> h,
     src_ok |-> TRUE, hints_ok |-> TRUE]

\* the same object when inspect.getsource raises for it (OSError, TypeError)
NoSource(obj) == [obj EXCEPT !.src_ok = FALSE]

\* the same object when get_type_hints raises for it (NameError on a forward
\* reference)
BadHints(obj) == [obj EXCEPT !.hints_ok = FALSE]

\* the attributes of module tecton, given the hints that vary
TectonModule(hA, hB, hC, hBFV, hGet, withFn) ==
    LET always ==
            ( "A" :> Object("A", "class", "tecton", hA)
           @@ "B" :> Object("B", "class", "tecton", hB)
           @@ "C" :> Object("C", "class", "tecton", hC)
           @@ "Aggregate" :> Object("Aggregate", "class",
                                    "tecton.framework.configs", <<TField, TStr>>)
           @@ "BatchFeatureView" :> Object("BatchFeatureView", "class",
                                    "tecton.framework.feature_view", hBFV)
           @@ "get_feature_view" :> Object("get_feature_view", "function",
                                    "tecton", hGet)
           @@ "__version__" :> Object("str", "other", "builtins", <<>>) )
        fn == "batch_feature_view" :> Object("batch_feature_view", "function",
                                    "tecton.framework.feature_view", <<TStr>>)
    IN IF withFn THEN always @@ fn ELSE always

TypesModule ==
    "Field" :> Object("Field", "class", "tecton.types", <<TStr>>)

AggregationModule ==
    "last_distinct" :> Object("last_distinct", "function",
                              "tecton.aggregation_functions", <<TA>>)

\* the SDKs the model is run against
SDKs ==
    { ( "tecton" :> TectonModule(hA, hB, hC, hBFV, hGet, withFn)
     @@ "tecton.types" :> TypesModule
     @@ "tecton.aggregation_functions" :> AggregationModule ) :
        hA \in {<<TB>>, <<TA, Union(TB, TC)>>},
        hB \in {<<>>, <<TC>>},
        hC \in {<<TA>>},
        hBFV \in {<<Union(TStr, TAggregate)>>},
        hGet \in {<<TStr, TBFV>>},
        withFn \in BOOLEAN }

\* the SDKs the catalog and graph builds are run against.  On top of an SDK
\* of SDKs: module tecton re-exports a function of the package tecton_core and
\* binds the name last_distinct to something that is no class or function;
\* tecton.aggregation_functions has a function named A of its own; nosrc names
\* the symbol whose source inspect.getsource cannot find ("" for none), and
\* badhints tells whether the annotations of class A fail to resolve
BuildSDK(base, nosrc, badhints) ==
    LET mark(m) ==
            [n \in DOMAIN m |->
                LET o1 == IF n = nosrc THEN NoSource(m[n]) ELSE m[n]
                IN IF badhints /\ n = "A" /\ o1.kind = "class" THEN BadHints(o1) ELSE o1]
        core == "materialization_context" :>
                    Object("materialization_context", "function",
                           "tecton_core.materialization_context",
                           <<UnionType(TA, TB)>>)
        shadow == "last_distinct" :> Object("int", "other", "builtins", <<>>)
        dup == "A" :> Object("A", "function", "tecton.aggregation_functions",
                             <<TField>>)
    IN ( "tecton" :> mark(base["tecton"] @@ core @@ shadow)
      @@ "tecton.types" :> mark(base["tecton.types"])
      @@ "tecton.aggregation_functions" :>
             (base["tecton.aggregation_functions"] @@ dup) )

BuildSDKs ==
    { BuildSDK(base, nosrc, badhints) :
        base \in {s \in SDKs : s["tecton"]["A"].hints = <<TB>>
                               /\ s["tecton"]["B"].hints = <<TC>>},
        nosrc \in {"", "Field", "B"}, badhints \in BOOLEAN }

\* dir(module): the attribute names, sorted
Dir(s, m) == Sorted(DOMAIN s[m])

\* inspect.isclass / inspect.isfunction
IsClass(obj) == obj.kind = "class"
IsFunction(obj) == obj.kind = "function"

(***************************************************************************)
(* utils/sdk_introspector.py                                               *)
(***************************************************************************)
EXCLUDE_NAMES ==
    { "set_tecton_spark_session", "resource_provider", "login", "logout",
      "list_workspaces", "get_workspace", "get_transformation", "get_feature_view",
      "get_feature_table", "get_entity", "get_data_source", "get_caller_identity",
      "get_feature_service", "get_current_workspace", "complete_login",
      "TectonValidationError", "StrictModel", "StrictFrozenModel",
      "MaterializedFeatureView", "MaterializationJob", "MaterializationContext",
      "MaterializationAttempt", "LoggingConfig", "Inference",
      "FeatureMetadata", "FeatureReference" }

MODULES_TO_INSPECT == <<"tecton", "tecton.types", "tecton.aggregation_functions">>

\* foc.callable_declaration, as an opaque text
Declaration(obj) == <<"declaration of ", obj.name>>

\* _FuncOrClass(obj) raises: get_declaration calls inspect.getsource
FuncOrClassRaises(obj) == ~obj.src_ok

\* the declaration written by the except branch of line 52
Placeholder(name) == <<"# Could not retrieve declaration for ", name>>

\* lines 43-57: the declaration recorded for a symbol
CatalogDeclaration(obj, name) ==
    IF FuncOrClassRaises(obj) THEN Placeholder(name) ELSE Declaration(obj)

\* the keys of a details dict (a sequence of entries in insertion order)
Keys(details) == {details[i].name : i \in 1..Len(details)}

\* the entry lines 47-57 write for a symbol
Entry(obj, name, is_class) ==
    [ name |-> name,
      type |-> IF is_class THEN "Class" ELSE "Function",
      module |-> obj.module,
      declaration |-> CatalogDeclaration(obj, name) ]

\* the loop body without the test of line 40: a later module's symbol replaces
\* the entry of the same name
ScanName_Overwrite(s, m, name, acc) ==
    IF StartsWithUnderscore(name) \/ name \in EXCLUDE_NAMES THEN acc
    ELSE LET obj == s[m][name]
             is_class == IsClass(obj) /\ StartsWithTecton(obj.module)
             is_func == IsFunction(obj) /\ StartsWithTecton(obj.module)
         IN IF is_class \/ is_func
            THEN [ all_defs |-> acc.all_defs \cup {name},
                   details |->
                       IF name \in Keys(acc.details)
                       THEN [i \in 1..Len(acc.details) |->
                                IF acc.details[i].name = name
                                THEN Entry(obj, name, is_class)
                                ELSE acc.details[i]]
                       ELSE Append(acc.details, Entry(obj, name, is_class)) ]
            ELSE acc

\* the loop body with "except Exception: continue": a symbol whose declaration
\* cannot be extracted gets no entry
ScanName_DropOnError(s, m, name, acc) ==
    IF StartsWithUnderscore(name) \/ name \in EXCLUDE_NAMES THEN acc
    ELSE LET obj == s[m][name]
             is_class == IsClass(obj) /\ StartsWithTecton(obj.module)
             is_func == IsFunction(obj) /\ StartsWithTecton(obj.module)
         IN IF (is_class \/ is_func) /\ name \notin Keys(acc.details)
            THEN [ all_defs |-> acc.all_defs \cup {name},
                   details |-> IF FuncOrClassRaises(obj) THEN acc.details
                               ELSE Append(acc.details,
                                           Entry(obj, name, is_class)) ]
            ELSE acc

\* the body of the inner loop of get_sdk_definitions for one attribute
ScanName(s, m, name, acc) ==
    IF StartsWithUnderscore(name) \/ name \in EXCLUDE_NAMES THEN acc
    ELSE LET obj == s[m][name]
             is_class == IsClass(obj) /\ StartsWithTecton(obj.module)
             is_func == IsFunction(obj) /\ StartsWithTecton(obj.module)
         IN IF (is_class \/ is_func) /\ name \notin Keys(acc.details)
            THEN [ all_defs |-> acc.all_defs \cup {name},
                   details |-> Append(acc.details, Entry(obj, name, is_class)) ]
            ELSE acc

\* for name in dir(module), from position i on
RECURSIVE ScanModule(_, _, _, _)
ScanModule(s, m, i, acc) ==
    IF i > Len(Dir(s, m)) THEN acc
    ELSE ScanModule(s, m, i + 1, ScanName(s, m, Dir(s, m)[i], acc))

\* for module in MODULES_TO_INSPECT, from position k on
RECURSIVE ScanModules(_, _, _)
ScanModules(s, k, acc) ==
    IF k > Len(MODULES_TO_INSPECT) THEN acc
    ELSE ScanModules(s, k + 1, ScanModule(s, MODULES_TO_INSPECT[k], 1, acc))

\* get_sdk_definitions(): (details, sorted(list(all_defs)))
get_sdk_definitions(s) ==
    LET acc == ScanModules(s, 1, [all_defs |-> {}, details |-> <<>>])
    IN [built |-> TRUE, details |-> acc.details, all_defs |-> Sorted(acc.all_defs)]

\* the cache of lru_cache before the first call
EmptyCache == [built |-> FALSE, details |-> <<>>, all_defs |-> <<>>]

\* format_sdk_definitions(details, all_defs): the list output_lines, each line a
\* tuple of the pieces its f-string joins
DelimiterLine == <<"\n", "========================================", "\n">>

HeaderLine == <<"Found the following public classes/functions in Tecton SDK:">>

\* details.items() as inserted, without sorted()
SortedItems_Unsorted(details) == details

\* sorted(details.items()): the entries by ascending name
SortedItems(details) ==
    LET names == Sorted(Keys(details))
    IN [i \in 1..Len(names) |->
            details[CHOOSE j \in 1..Len(details) : details[j].name = names[i]]]

\* a block of three lines: title, "Import from: {module}", declaration
BlockLines_Plain(s, info) ==
    << <<info.type, ": ", info.name>>,
       <<"Import from: ", info.module>>,
       info.declaration,
       DelimiterLine >>

\* the lines of one symbol's block
BlockLines(s, info) ==
    LET import_from == IF info.name \in DOMAIN s["tecton"] THEN "tecton" ELSE info.module
    IN << <<info.type, ": ", info.name>>,
          <<"Import from: ", import_from, " (defined in: ", info.module, ")">>,
          <<"--------------------">>,
          info.declaration,
          DelimiterLine >>

RECURSIVE BlocksFrom(_, _, _)
BlocksFrom(s, items, i) ==
    IF i > Len(items) THEN <<>>
    ELSE BlockLines(s, items[i]) \o BlocksFrom(s, items, i + 1)

format_sdk_definitions(s, details, all_defs) ==
    <<HeaderLine>>
    \o [i \in 1..Len(all_defs) |-> <<"- ", all_defs[i]>>]
    \o <<DelimiterLine>>
    \o BlocksFrom(s, SortedItems(details), 1)

(***************************************************************************)
(* utils/copilot.py and tecton_utils.py: the dependency graph              *)
(***************************************************************************)
\* _FuncOrClass.from_expressions(["tecton"]): the public classes and functions
\* of module tecton, in dir() order
from_expressions(s) ==
    LET names == SelectSeq(Dir(s, "tecton"), LAMBDA n : ~StartsWithUnderscore(n))
        objs == [i \in 1..Len(names) |-> s["tecton"][names[i]]]
    IN SelectSeq(objs, LAMBDA x : IsClass(x) \/ IsFunction(x))

\* the list comprehension of lines 65-69 raises: _FuncOrClass(x) is built for
\* every class and function outside any try
from_expressions_raises(s) ==
    \E n \in DOMAIN s["tecton"] :
        /\ ~StartsWithUnderscore(n)
        /\ IsClass(s["tecton"][n]) \/ IsFunction(s["tecton"][n])
        /\ FuncOrClassRaises(s["tecton"][n])

is_tecton_type(tp) == StartsWithTectonDot(tp.module) \/ tp.module = "tecton"

\* what one annotation yields in _find_tecton_annotations
AnnotationYield(param) ==
    IF is_tecton_type(param) THEN <<param>>
    ELSE IF param.origin = "Union"
         THEN SelectSeq(param.args, is_tecton_type)
         ELSE <<>>

RECURSIVE AnnotationsFrom(_, _)
AnnotationsFrom(hints, i) ==
    IF i > Len(hints) THEN <<>>
    ELSE AnnotationYield(hints[i]) \o AnnotationsFrom(hints, i + 1)

\* get_type_hints raises before anything is yielded, and the except of line 60
\* ends the generator
_find_tecton_annotations(obj) ==
    IF obj.hints_ok THEN AnnotationsFrom(obj.hints, 1) ELSE <<>>

_find_tecton_mentions(obj) ==
    IF IsClass(obj)
    THEN IF ~obj.enum THEN _find_tecton_annotations(obj) ELSE <<>>
    ELSE IF IsFunction(obj) THEN _find_tecton_annotations(obj) ELSE <<>>

\* scope = {x.name: x for x in objects}: the last object of a name is kept
Scope(objects) ==
    [n \in {objects[i].name : i \in 1..Len(objects)} |->
        objects[CHOOSE i \in 1..Len(objects) :
                    /\ objects[i].name = n
                    /\ \A j \in 1..Len(objects) : objects[j].name = n => j <= i]]

_find_tecton_dependencies(scope) ==
    [key \in DOMAIN scope |->
        LET mentions == _find_tecton_mentions(scope[key])
            names == [i \in 1..Len(mentions) |-> mentions[i].name]
        IN SelectSeq(names, LAMBDA n : n \in DOMAIN scope)]

\* APIGraphBuilder().graph
APIGraphBuilder(s) ==
    LET scope == Scope(from_expressions(s))
        deps == _find_tecton_dependencies(scope)
    IN [key \in DOMAIN scope |->
            [declaration |-> Declaration(scope[key]), deps |-> deps[key]]]

\* APIGraphBuilder() raises: line 22 consumes the generator from_expressions
APIGraphBuilderRaises(s) == from_expressions_raises(s)

(***************************************************************************)
(* tools/api_reference_tools.py                                            *)
(***************************************************************************)
\* the table with the class-to-function entries only
SYMMETRIC_MAPPINGS_OneWay ==
    ( "BatchFeatureView" :> "batch_feature_view"
   @@ "StreamFeatureView" :> "stream_feature_view"
   @@ "RealtimeFeatureView" :> "realtime_feature_view" )

SYMMETRIC_MAPPINGS ==
    ( "BatchFeatureView" :> "batch_feature_view"
   @@ "batch_feature_view" :> "BatchFeatureView"
   @@ "StreamFeatureView" :> "stream_feature_view"
   @@ "stream_feature_view" :> "StreamFeatureView"
   @@ "RealtimeFeatureView" :> "realtime_feature_view"
   @@ "realtime_feature_view" :> "RealtimeFeatureView" )

\* an argument filter_list: None, or a list of names
NoneArg == [given |-> FALSE, names |-> <<>>]
ListArg(names) == [given |-> TRUE, names |-> names]

\* "if filter_list is not None" in place of "if filter_list"
Truthy_NotNone(arg) == arg.given

\* Python's truth value of filter_list
Truthy(arg) == arg.given /\ Len(arg.names) > 0

\* the names a caller may put in a request
RequestNames ==
    { "A", "B", "Aggregate", "BatchFeatureView", "batch_feature_view",
      "Field", "get_feature_view", "NotARealSymbol" }

Requests == {NoneArg} \cup {ListArg(names) : names \in SeqsUpTo(RequestNames, MaxReq)}

\* lines 53-61 without the aggregation functions of lines 64-67
InitialFilter_NoFamily(details, names) ==
    LET requested == Range(names)
    IN requested \cup {SYMMETRIC_MAPPINGS[item] :
                          item \in requested \cap DOMAIN SYMMETRIC_MAPPINGS}

\* lines 57-61 with "for item in filter_list[:1]": only the first requested name
\* is looked up in the alias table and compared with 'Aggregate'
InitialFilter_FirstOnly(details, names) ==
    LET requested == Range(names)
        first == {names[1]}
        symmetric == {SYMMETRIC_MAPPINGS[item] :
                         item \in first \cap DOMAIN SYMMETRIC_MAPPINGS}
        aggregations ==
            IF "Aggregate" \in first
            THEN {details[i].name : i \in
                    {j \in 1..Len(details) :
                        details[j].module = "tecton.aggregation_functions"}}
            ELSE {}
    IN requested \cup symmetric \cup aggregations

\* lines 53-67: the set built from the request before the closure
InitialFilter(details, names) ==
    LET requested == Range(names)
        symmetric == {SYMMETRIC_MAPPINGS[item] :
                         item \in requested \cap DOMAIN SYMMETRIC_MAPPINGS}
        needs_aggregations == "Aggregate" \in requested
        aggregations ==
            IF needs_aggregations
            THEN {details[i].name : i \in
                    {j \in 1..Len(details) :
                        details[j].module = "tecton.aggregation_functions"}}
            ELSE {}
    IN requested \cup symmetric \cup aggregations

\* the header built from the expanded set itself, not from all_defs
FilteredReference_Unfiltered(s, c, expanded) ==
    format_sdk_definitions(s, SelectSeq(c.details, LAMBDA d : d.name \in expanded),
                           Sorted(expanded))

\* the alias loop of lines 57-59 run once more over the final set, after the
\* closure
FilteredReference_AliasLate(s, c, expanded) ==
    LET final == expanded \cup {SYMMETRIC_MAPPINGS[item] :
                                   item \in expanded \cap DOMAIN SYMMETRIC_MAPPINGS}
    IN format_sdk_definitions(s,
           SelectSeq(c.details, LAMBDA d : d.name \in final),
           SelectSeq(c.all_defs, LAMBDA n : n \in final))

\* the test of line 60 made on the final set, after the closure
FilteredReference_FamilyLate(s, c, expanded) ==
    LET family == IF "Aggregate" \in expanded
                  THEN {c.details[i].name : i \in
                          {j \in 1..Len(c.details) :
                              c.details[j].module = "tecton.aggregation_functions"}}
                  ELSE {}
        final == expanded \cup family
    IN format_sdk_definitions(s,
           SelectSeq(c.details, LAMBDA d : d.name \in final),
           SelectSeq(c.all_defs, LAMBDA n : n \in final))

\* lines 74-80: filter by the final set and format
FilteredReference(s, c, expanded) ==
    LET filtered_details == SelectSeq(c.details, LAMBDA d : d.name \in expanded)
        filtered_all_defs == SelectSeq(c.all_defs, LAMBDA n : n \in expanded)
    IN format_sdk_definitions(s, filtered_details, filtered_all_defs)

\* a frame of _add_dependencies(item_name, ...), at position i of its for loop
Frame(item_name) == [item_name |-> item_name, i |-> 1]

\* line 32 left out: a dependency is added but its own dependencies are not walked
Enter_NoRecursion(g, item_name, frames) ==
    IF item_name \notin DOMAIN g \/ frames # <<>> THEN frames
    ELSE Append(frames, Frame(item_name))

\* the call _add_dependencies(item_name, graph, ...): it returns at once when
\* item_name is no key of the graph, and enters the for loop otherwise
Enter(g, item_name, frames) ==
    IF item_name \notin DOMAIN g THEN frames ELSE Append(frames, Frame(item_name))

\* line 30 left out: every dependency is walked again
IsNewDep_Always(dep, filter_set) == TRUE

\* line 30 with the test turned round: "if dep in filter_set_to_update"
IsNewDep_Inverted(dep, filter_set) == dep \in filter_set

\* the test of line 30
IsNewDep(dep, filter_set) == dep \notin filter_set

\* the names whose frame a call of _add_dependencies has pushed
Entered(before, after) ==
    IF Len(after) > Len(before) THEN {after[Len(after)].item_name} ELSE {}

\* a thread outside get_sdk_definitions
Threads == 1..MaxThreads
EmptyAcc == [all_defs |-> {}, details |-> <<>>]
IdleThread == [pc |-> "idle", k |-> 0, acc |-> EmptyAcc, run |-> 0,
               result |-> EmptyCache, obj |-> 0]

\* register_tecton_feature_service_as_tools before it is called, in a
\* workspace that lists no feature service
NoWorkspace == [ws_ok |-> TRUE, list_ok |-> TRUE, names |-> <<>>, bad |-> {}]
RegStart(env) == [pc |-> "start", env |-> env, fs_names |-> <<>>, i |-> 1,
                  tools |-> <<>>, logged |-> FALSE]

\* the utilities before they are called
BcIdle == [pc |-> "idle", names |-> <<>>, k |-> 1, mapped |-> FALSE,
           stack |-> <<>>, code |-> <<>>]
RepoIdle == [cloned |-> <<>>, resolved |-> <<>>, exists |-> <<>>, made |-> 0,
             clones |-> <<>>, cleared |-> FALSE, last |-> <<>>]
DocsIdle == [pc |-> "start", tecton |-> [installed |-> FALSE, version |-> <<>>],
             version |-> <<>>, db_filename |-> ""]
ExamplesIdle == [pc |-> "start", env |-> <<>>, db_name |-> "", outcome |-> ""]
TestIdle == [pc |-> "start", config |-> <<>>, env |-> <<>>, result |-> <<>>]

ToolsIdle ==
    /\ bc = BcIdle
    /\ repo = RepoIdle
    /\ docs = DocsIdle
    /\ examples = ExamplesIdle
    /\ test = TestIdle

\* no call of get_full_sdk_reference is under way
CallIdle ==
    /\ pc = "idle"
    /\ filter_list = NoneArg
    /\ expanded_filter = {}
    /\ items_to_check_deps = {}
    /\ stack = <<>>
    /\ ret = <<>>
    /\ prev = <<>>
    /\ walked = {}
    /\ rewalked = {}

Init ==
    /\ sdk \in SDKs
    /\ graph = APIGraphBuilder(sdk)
    /\ import_status = "built"
    /\ cache = EmptyCache
    /\ cache_obj = 0
    /\ runs = 0
    /\ threads = [t \in Threads |-> IdleThread]
    /\ reg = RegStart(NoWorkspace)
    /\ CallIdle
    /\ ToolsIdle

\* get_full_sdk_reference(arg) is called: lines 49-70, or 49-51 and 83.  A caller
\* that holds the text of a call may repeat the request.
Call(arg) ==
    /\ pc = "idle" \/ (pc = "done" /\ arg = filter_list)
    /\ LET c == IF cache.built THEN cache ELSE get_sdk_definitions(sdk)
       IN /\ cache' = c
          /\ runs' = IF cache.built THEN runs ELSE runs + 1
          /\ cache_obj' = IF cache.built THEN cache_obj ELSE runs + 1
          /\ filter_list' = arg
          /\ prev' = ret
          /\ stack' = <<>>
          /\ walked' = {}
          /\ rewalked' = {}
          /\ IF Truthy(arg)
             THEN /\ expanded_filter' = InitialFilter(c.details, arg.names)
                  /\ items_to_check_deps' = expanded_filter'
                  /\ pc' = "closure"
                  /\ ret' = <<>>
             ELSE /\ expanded_filter' = {}
                  /\ items_to_check_deps' = {}
                  /\ pc' = "done"
                  /\ ret' = format_sdk_definitions(sdk, c.details, c.all_defs)
    /\ UNCHANGED <<sdk, graph, host_vars>>

\* one iteration of the for loop of line 71, in the order the set iterates: the
\* call of line 72 is made
NextItem ==
    /\ pc = "closure"
    /\ stack = <<>>
    /\ \E item \in items_to_check_deps :
          /\ stack' = Enter(graph, item, stack)
          /\ items_to_check_deps' = items_to_check_deps \ {item}
          /\ walked' = walked \cup Entered(stack, stack')
          /\ rewalked' = rewalked \cup (Entered(stack, stack') \cap walked)
    /\ UNCHANGED <<sdk, graph, cache, pc, filter_list, expanded_filter, ret, prev,
                   host_vars, runs, cache_obj>>

\* the loop of line 29 written as "while dependencies: dep = dependencies.pop(0)":
\* the walk consumes the dependency lists of builder.graph
DepStep_Destructive ==
    /\ pc = "closure"
    /\ stack # <<>>
    /\ LET top == stack[Len(stack)]
           dependencies == graph[top.item_name].deps
           rest == SubSeq(stack, 1, Len(stack) - 1)
       IN IF dependencies = <<>>
          THEN /\ stack' = rest
               /\ UNCHANGED <<expanded_filter, graph>>
          ELSE LET dep == Head(dependencies)
               IN /\ graph' = [graph EXCEPT ![top.item_name].deps = Tail(dependencies)]
                  /\ IF IsNewDep(dep, expanded_filter)
                     THEN /\ expanded_filter' = expanded_filter \cup {dep}
                          /\ stack' = Enter(graph, dep, stack)
                     ELSE /\ expanded_filter' = expanded_filter
                          /\ stack' = stack
    /\ UNCHANGED <<sdk, cache, pc, filter_list, items_to_check_deps, ret, prev,
                   walked, rewalked, host_vars, runs, cache_obj>>

\* one iteration of the for loop of line 29 in the innermost frame, or its return
DepStep ==
    /\ pc = "closure"
    /\ stack # <<>>
    /\ LET top == stack[Len(stack)]
           dependencies == graph[top.item_name].deps
           rest == SubSeq(stack, 1, Len(stack) - 1)
       IN IF top.i > Len(dependencies)
          THEN /\ stack' = rest
               /\ UNCHANGED <<expanded_filter, pc, walked, rewalked>>
          ELSE LET dep == dependencies[top.i]
                   advanced == Append(rest, [top EXCEPT !.i = top.i + 1])
                   entered == Entered(advanced, Enter(graph, dep, advanced))
               IN IF IsNewDep(dep, expanded_filter)
                  THEN /\ expanded_filter' = expanded_filter \cup {dep}
                       /\ walked' = walked \cup entered
                       /\ rewalked' = rewalked \cup (entered \cap walked)
                       /\ IF Len(Enter(graph, dep, advanced)) > MaxDepth
                          THEN /\ stack' = <<>>
                               /\ pc' = "error"
                          ELSE /\ stack' = Enter(graph, dep, advanced)
                               /\ pc' = pc
                  ELSE /\ expanded_filter' = expanded_filter
                       /\ stack' = advanced
                       /\ pc' = pc
                       /\ UNCHANGED <<walked, rewalked>>
    /\ UNCHANGED <<sdk, graph, cache, filter_list, items_to_check_deps, ret, prev,
                   host_vars, runs, cache_obj>>

\* lines 75-79 written with "del details[name]" on the dict of the cache: the
\* catalog is filtered in place
Return_FilterInPlace ==
    /\ pc = "closure"
    /\ stack = <<>>
    /\ items_to_check_deps = {}
    /\ ret' = FilteredReference(sdk, cache, expanded_filter)
    /\ cache' = [cache EXCEPT
            !.details = SelectSeq(cache.details, LAMBDA d : d.name \in expanded_filter),
            !.all_defs = SelectSeq(cache.all_defs, LAMBDA n : n \in expanded_filter)]
    /\ pc' = "done"
    /\ UNCHANGED <<sdk, graph, filter_list, expanded_filter,
                   items_to_check_deps, stack, prev, walked, rewalked,
                   host_vars, runs, cache_obj>>

\* lines 74-80: the loop of line 71 is over and the text is returned
Return ==
    /\ pc = "closure"
    /\ stack = <<>>
    /\ items_to_check_deps = {}
    /\ ret' = FilteredReference(sdk, cache, expanded_filter)
    /\ pc' = "done"
    /\ UNCHANGED <<sdk, graph, cache, filter_list, expanded_filter,
                   items_to_check_deps, stack, prev, walked, rewalked,
                   host_vars, runs, cache_obj>>

\* query_tecton_sdk_reference_tool hands the text, or the error, to its client:
\* nothing of the call is kept
Deliver ==
    /\ pc \in {"done", "error"}
    /\ pc' = "idle"
    /\ filter_list' = NoneArg
    /\ expanded_filter' = {}
    /\ ret' = <<>>
    /\ prev' = <<>>
    /\ items_to_check_deps' = {}
    /\ walked' = {}
    /\ rewalked' = {}
    /\ UNCHANGED <<sdk, graph, cache, stack, host_vars, runs, cache_obj>>

\* the arguments a call can be made with: any request when no call is under way,
\* the same request again when the caller holds the text of a call
Callable ==
    IF pc = "idle" THEN Requests
    ELSE IF pc = "done" THEN {filter_list}
    ELSE {}

Next ==
    \/ \E arg \in Callable : Call(arg)
    \/ NextItem
    \/ DepStep
    \/ Return
    \/ Deliver

Spec == Init /\ [][Next]_vars

(***************************************************************************)
(* The builds: the import of api_reference_tools, which runs               *)
(* APIGraphBuilder(), and threads that call get_sdk_definitions through    *)
(* functools.lru_cache.  The wrapper looks the key up, calls the body      *)
(* without holding any lock when the key is missing, and stores the result *)
(* unless the key has been stored in the meantime.                         *)
(***************************************************************************)
BuildInit ==
    /\ sdk \in BuildSDKs
    /\ graph = <<>>
    /\ import_status = "unbuilt"
    /\ cache = EmptyCache
    /\ cache_obj = 0
    /\ runs = 0
    /\ threads = [t \in Threads |-> IdleThread]
    /\ reg = RegStart(NoWorkspace)
    /\ CallIdle
    /\ ToolsIdle

\* "builder = APIGraphBuilder()", line 9 of api_reference_tools.py
ImportBuilder ==
    /\ import_status = "unbuilt"
    /\ IF APIGraphBuilderRaises(sdk)
       THEN /\ import_status' = "raised"
            /\ graph' = graph
       ELSE /\ import_status' = "built"
            /\ graph' = APIGraphBuilder(sdk)
    /\ UNCHANGED <<sdk, cache, cache_obj, runs, threads, reg, call_vars, tool_vars>>

\* thread t calls get_sdk_definitions(): a hit returns the cached tuple, a miss
\* enters the body
Lookup(t) ==
    /\ threads[t].pc = "idle"
    /\ IF cache.built
       THEN /\ threads' = [threads EXCEPT ![t] =
                    [IdleThread EXCEPT !.pc = "got", !.result = cache,
                                       !.obj = cache_obj]]
            /\ runs' = runs
       ELSE /\ threads' = [threads EXCEPT ![t] =
                    [IdleThread EXCEPT !.pc = "scan", !.k = 1, !.run = runs + 1]]
            /\ runs' = runs + 1
    /\ UNCHANGED <<sdk, graph, import_status, cache, cache_obj, reg, call_vars, tool_vars>>

\* thread t scans one module of MODULES_TO_INSPECT: lines 29-57
ScanStep(t) ==
    /\ threads[t].pc = "scan"
    /\ threads[t].k <= Len(MODULES_TO_INSPECT)
    /\ threads' = [threads EXCEPT
            ![t].acc = ScanModule(sdk, MODULES_TO_INSPECT[threads[t].k], 1,
                                  threads[t].acc),
            ![t].k = threads[t].k + 1]
    /\ UNCHANGED <<sdk, graph, import_status, cache, cache_obj, runs, reg,
                   call_vars, tool_vars>>

\* the body of thread t returns (line 58) and the wrapper stores the tuple,
\* unless another thread has stored one since the lookup of t; t gets the tuple
\* its own run made
Store(t) ==
    /\ threads[t].pc = "scan"
    /\ threads[t].k > Len(MODULES_TO_INSPECT)
    /\ LET result == [built |-> TRUE, details |-> threads[t].acc.details,
                      all_defs |-> Sorted(threads[t].acc.all_defs)]
       IN /\ threads' = [threads EXCEPT ![t] =
                  [IdleThread EXCEPT !.pc = "got", !.result = result,
                                     !.obj = threads[t].run]]
          /\ cache' = IF cache.built THEN cache ELSE result
          /\ cache_obj' = IF cache.built THEN cache_obj ELSE threads[t].run
    /\ UNCHANGED <<sdk, graph, import_status, runs, reg, call_vars, tool_vars>>

\* thread t drops the tuple it got
Release(t) ==
    /\ threads[t].pc = "got"
    /\ threads' = [threads EXCEPT ![t] = IdleThread]
    /\ UNCHANGED <<sdk, graph, import_status, cache, cache_obj, runs, reg,
                   call_vars, tool_vars>>

BuildNext ==
    \/ ImportBuilder
    \/ \E t \in Threads : Lookup(t)
    \/ \E t \in Threads : ScanStep(t)
    \/ \E t \in Threads : Store(t)
    \/ \E t \in Threads : Release(t)

BuildSpec == BuildInit /\ [][BuildNext]_vars

(***************************************************************************)
(* tools/feature_service_tool_library.py:                                  *)
(* register_tecton_feature_service_as_tools.  The workspace is the         *)
(* environment: env.ws_ok and env.list_ok tell whether tecton.get_workspace*)
(* and ws.list_feature_services succeed, env.names is the list the         *)
(* workspace gives, env.bad the services whose fetch raises.               *)
(***************************************************************************)
ServiceNames == {"fs_a", "fs_b", "fs_c"}

RegEnvs ==
    { [ws_ok |-> w, list_ok |-> l, names |-> names, bad |-> bad] :
        w \in BOOLEAN, l \in BOOLEAN,
        names \in {q \in SeqsUpTo(ServiceNames, MaxServices) :
                     \A i, j \in 1..Len(q) : q[i] = q[j] => i = j},
        bad \in SUBSET ServiceNames }

RegisterInit ==
    /\ reg \in {RegStart(env) : env \in {e \in RegEnvs : e.bad \subseteq Range(e.names)}}
    /\ sdk = CHOOSE s \in SDKs : TRUE
    /\ graph = <<>>
    /\ import_status = "unbuilt"
    /\ cache = EmptyCache
    /\ cache_obj = 0
    /\ runs = 0
    /\ threads = [t \in Threads |-> IdleThread]
    /\ CallIdle
    /\ ToolsIdle

\* line 212, outside the try
GetWorkspace ==
    /\ reg.pc = "start"
    /\ reg' = [reg EXCEPT !.pc = IF reg.env.ws_ok THEN "listing" ELSE "raised"]
    /\ UNCHANGED <<sdk, graph, import_status, cache, cache_obj, runs, threads,
                   call_vars, tool_vars>>

\* line 213, outside the try
ListFeatureServices ==
    /\ reg.pc = "listing"
    /\ reg' = IF reg.env.list_ok
              THEN [reg EXCEPT !.pc = "loop", !.fs_names = reg.env.names]
              ELSE [reg EXCEPT !.pc = "raised"]
    /\ UNCHANGED <<sdk, graph, import_status, cache, cache_obj, runs, threads,
                   call_vars, tool_vars>>

\* one iteration of the loop of line 216: the service is fetched and its tool
\* added to the server; an error is logged and raised again (lines 241-243)
RegisterOne ==
    /\ reg.pc = "loop"
    /\ reg.i <= Len(reg.fs_names)
    /\ LET fs_name == reg.fs_names[reg.i]
       IN reg' = IF fs_name \in reg.env.bad
                 THEN [reg EXCEPT !.pc = "raised", !.logged = TRUE]
                 ELSE [reg EXCEPT !.i = reg.i + 1,
                                  !.tools = Append(reg.tools, <<fs_name, "_tool">>)]
    /\ UNCHANGED <<sdk, graph, import_status, cache, cache_obj, runs, threads,
                   call_vars, tool_vars>>

\* the loop is over and the function returns None
RegisterReturn ==
    /\ reg.pc = "loop"
    /\ reg.i > Len(reg.fs_names)
    /\ reg' = [reg EXCEPT !.pc = "returned"]
    /\ UNCHANGED <<sdk, graph, import_status, cache, cache_obj, runs, threads,
                   call_vars, tool_vars>>

RegisterNext ==
    \/ GetWorkspace
    \/ ListFeatureServices
    \/ RegisterOne
    \/ RegisterReturn

RegisterSpec == RegisterInit /\ [][RegisterNext]_vars

(***************************************************************************)
(* Reading the returned text                                               *)
(***************************************************************************)
IsHeaderItem(line) == Len(line) = 2 /\ line[1] = "- "
IsBlockTitle(line) == Len(line) = 3 /\ line[2] = ": "

\* the names of the header list, in the order of the text
HeaderNames(text) ==
    LET items == SelectSeq(text, IsHeaderItem)
    IN [i \in 1..Len(items) |-> items[i][2]]

\* the names of the per-symbol blocks, in the order of the text
BlockNames(text) ==
    LET titles == SelectSeq(text, IsBlockTitle)
    IN [i \in 1..Len(titles) |-> titles[i][3]]

\* the keys of the catalog get_sdk_definitions built
Catalog == Keys(cache.details)

\* the catalog symbols of module tecton.aggregation_functions
AggregationSymbols ==
    {cache.details[i].name : i \in
        {j \in 1..Len(cache.details) :
            cache.details[j].module = "tecton.aggregation_functions"}}

\* the names a symbol's entry of the graph lists
Edges(n) == IF n \in DOMAIN graph THEN Range(graph[n].deps) ELSE {}

\* the smallest set that contains S and is closed under the edges of the graph
RECURSIVE Closure(_)
Closure(S) ==
    LET T == S \cup UNION {Edges(n) : n \in S}
    IN IF T = S THEN S ELSE Closure(T)

\* the requested names, their aliases, and the aggregation functions when
\* 'Aggregate' is requested
Seed(R) ==
    R \cup {SYMMETRIC_MAPPINGS[n] : n \in R \cap DOMAIN SYMMETRIC_MAPPINGS}
      \cup (IF "Aggregate" \in R THEN AggregationSymbols ELSE {})

Requested == Range(filter_list.names)

\* a call with a non-empty request has returned
Resolved == pc = "done" /\ Truthy(filter_list)

\* strictly ascending in str order
Ascending(names) == \A i \in 1..(Len(names) - 1) : StrLess(names[i], names[i + 1])

(***************************************************************************)
(* C1  For every catalog, graph and non-empty request R, the names emitted *)
(* (header and blocks) are exactly the catalog names in the smallest set   *)
(* that contains R, the alias of every name of R, the aggregation          *)
(* functions of the catalog when 'Aggregate' is in R, and is closed under  *)
(* the edges of the graph.                                                 *)
(***************************************************************************)
C1_ClosureExact ==
    Resolved =>
        LET expected == Closure(Seed(Requested)) \cap Catalog
        IN /\ Range(HeaderNames(ret)) = expected
           /\ Range(BlockNames(ret)) = expected

\* a name is emitted that only the closure brings in, and a catalog name is left out
C1_Witness ==
    /\ Resolved
    /\ \E n \in Range(HeaderNames(ret)) : n \notin Seed(Requested)
    /\ \E n \in Catalog : n \notin Range(HeaderNames(ret))
    /\ \E n \in Requested : n \notin Catalog

(***************************************************************************)
(* C2  Resolution terminates for every graph, cycles and self-edges        *)
(* included: every step of the walk lowers a natural-number measure, the   *)
(* frames of the walk are distinct keys of the graph (so the nesting stays *)
(* below the recursion limit and the next step is defined), and the call   *)
(* never raises; with A, B, C in the catalog and edges A->B, B->C, C->A    *)
(* the request ['A'] emits exactly A, B and C.                             *)
(***************************************************************************)
CycleABC ==
    /\ {"A", "B", "C"} \subseteq Catalog
    /\ {"A", "B", "C"} \subseteq DOMAIN graph
    /\ graph["A"].deps = <<"B">>
    /\ graph["B"].deps = <<"C">>
    /\ graph["C"].deps = <<"A">>

\* one more than the longest dependency list plus one
Weight ==
    LET lens == {Len(graph[k].deps) : k \in DOMAIN graph}
    IN (CHOOSE m \in lens : \A l \in lens : l <= m) + 2

\* the iterations the frames on the stack still have to make, returns included
RECURSIVE PendingIn(_, _)
PendingIn(frames, k) ==
    IF k > Len(frames) THEN 0
    ELSE (Len(graph[frames[k].item_name].deps) + 2 - frames[k].i)
         + PendingIn(frames, k + 1)

\* what the walk has left: names it may still add, items it has not reached,
\* and the iterations of the frames
Measure ==
    Weight * ( Cardinality({NameOrder[i] : i \in 1..Len(NameOrder)} \ expanded_filter)
             + Cardinality(items_to_check_deps) )
    + PendingIn(stack, 1)

\* every frame is at a position of the dependency list of a key of the graph,
\* and no two frames walk the same key
FramesWellFormed ==
    /\ \A k \in 1..Len(stack) :
          /\ stack[k].item_name \in DOMAIN graph
          /\ stack[k].i \in 1..(Len(graph[stack[k].item_name].deps) + 1)
    /\ \A k, l \in 1..Len(stack) : stack[k].item_name = stack[l].item_name => k = l

C2_CycleTerminates ==
    /\ [](pc # "error")
    /\ [](pc = "closure" => Measure >= 0 /\ FramesWellFormed)
    /\ [][pc = "closure" /\ pc' = "closure" => Measure' < Measure]_vars
    /\ [](Resolved /\ CycleABC /\ filter_list.names = <<"A">> =>
            /\ Range(HeaderNames(ret)) = {"A", "B", "C"}
            /\ Range(BlockNames(ret)) = {"A", "B", "C"})

\* the request ['A'] has been resolved against the cycle
C2_Witness ==
    /\ Resolved
    /\ CycleABC
    /\ filter_list.names = <<"A">>
    /\ HeaderNames(ret) = <<"A", "B", "C">>

(***************************************************************************)
(* C3  For every non-empty request in which no requested name is a key of  *)
(* the catalog, the call raises no error and emits no symbol at all: no    *)
(* name in the header and no block.                                        *)
(***************************************************************************)
C3_AllUnknownEmitsNothing ==
    /\ pc # "error"
    /\ Resolved /\ Requested \cap Catalog = {} =>
            /\ HeaderNames(ret) = <<>>
            /\ BlockNames(ret) = <<>>

(***************************************************************************)
(* C4  For every non-empty request the symbols are emitted in ascending    *)
(* name order, in the header and in the blocks, and the order is that of   *)
(* the sorted set the requested names determine, whatever their order in   *)
(* the request.                                                            *)
(***************************************************************************)
C4_AscendingOrder ==
    Resolved =>
        LET expected == Sorted(Closure(Seed(Requested)) \cap Catalog)
        IN /\ Ascending(HeaderNames(ret))
           /\ Ascending(BlockNames(ret))
           /\ HeaderNames(ret) = expected
           /\ BlockNames(ret) = expected

\* two names requested in descending order are emitted in ascending order, and
\* a symbol cataloged from a later module precedes one of module tecton
C4_Witness ==
    /\ Resolved
    /\ Len(filter_list.names) = 2
    /\ StrLess(filter_list.names[2], filter_list.names[1])
    /\ \E i, j \in 1..Len(BlockNames(ret)) :
          /\ i < j
          /\ BlockNames(ret)[i] = filter_list.names[2]
          /\ BlockNames(ret)[j] = filter_list.names[1]
    /\ BlockNames(ret) = HeaderNames(ret)
    /\ filter_list.names[2] \notin DOMAIN sdk["tecton"]
    /\ filter_list.names[1] \in DOMAIN sdk["tecton"]

(***************************************************************************)
(* C5  When the request is an empty list or None, the call performs no     *)
(* alias, family or dependency expansion and emits every symbol of the     *)
(* catalog, in ascending name order.                                       *)
(***************************************************************************)
C5_EmptyRequestFullDump ==
    pc = "done" /\ ~(filter_list.given /\ Len(filter_list.names) > 0) =>
        /\ HeaderNames(ret) = Sorted(Catalog)
        /\ BlockNames(ret) = Sorted(Catalog)
        /\ Ascending(HeaderNames(ret))
        /\ expanded_filter = {}
        /\ items_to_check_deps = {}
        /\ stack = <<>>

\* the empty list has been resolved to the whole catalog
C5_Witness ==
    /\ pc = "done"
    /\ filter_list = ListArg(<<>>)
    /\ Len(HeaderNames(ret)) >= 2
    /\ Range(BlockNames(ret)) = Catalog

(***************************************************************************)
(* C6  For every pair (a, b) of SYMMETRIC_MAPPINGS whose two names are in  *)
(* the catalog, resolving [a] emits a and b (and so does resolving [b]);   *)
(* the table is symmetric: a maps to b exactly when b maps to a.           *)
(***************************************************************************)
C6_AliasSymmetry ==
    /\ \A a \in DOMAIN SYMMETRIC_MAPPINGS :
          /\ SYMMETRIC_MAPPINGS[a] \in DOMAIN SYMMETRIC_MAPPINGS
          /\ SYMMETRIC_MAPPINGS[SYMMETRIC_MAPPINGS[a]] = a
    /\ \A a \in {"BatchFeatureView", "batch_feature_view", "StreamFeatureView",
                 "stream_feature_view", "RealtimeFeatureView", "realtime_feature_view"} :
          Resolved /\ filter_list.names = <<a>> =>
              \A b \in {"BatchFeatureView", "batch_feature_view", "StreamFeatureView",
                        "stream_feature_view", "RealtimeFeatureView",
                        "realtime_feature_view"} :
                  (\/ (a \in DOMAIN SYMMETRIC_MAPPINGS /\ SYMMETRIC_MAPPINGS[a] = b)
                   \/ (b \in DOMAIN SYMMETRIC_MAPPINGS /\ SYMMETRIC_MAPPINGS[b] = a))
                  /\ {a, b} \subseteq Catalog
                  => /\ {a, b} \subseteq Range(HeaderNames(ret))
                     /\ {a, b} \subseteq Range(BlockNames(ret))

\* the function-style name alone was requested and both names are emitted
C6_Witness ==
    /\ Resolved
    /\ filter_list.names = <<"batch_feature_view">>
    /\ {"BatchFeatureView", "batch_feature_view"} \subseteq Catalog
    /\ {"BatchFeatureView", "batch_feature_view"} \subseteq Range(BlockNames(ret))

(***************************************************************************)
(* C7  Resolving a request that contains 'Aggregate' emits every catalog   *)
(* symbol whose module is tecton.aggregation_functions, those that are not *)
(* reachable from 'Aggregate' through dependency edges included.           *)
(***************************************************************************)
C7_FamilyExpansion ==
    Resolved /\ "Aggregate" \in Requested =>
        /\ AggregationSymbols \subseteq Range(HeaderNames(ret))
        /\ AggregationSymbols \subseteq Range(BlockNames(ret))

\* an aggregation function that no edge path from 'Aggregate' reaches is emitted
C7_Witness ==
    /\ Resolved
    /\ filter_list.names = <<"Aggregate">>
    /\ \E n \in AggregationSymbols :
          /\ n \notin Closure({"Aggregate"})
          /\ n \in Range(BlockNames(ret))

(***************************************************************************)
(* C8  Resolving the same request twice against the same catalog and graph *)
(* yields identical text (same names, same blocks, same order), and the    *)
(* first call leaves the memoized catalog and the graph as they were.      *)
(***************************************************************************)
C8_Idempotent ==
    /\ [](pc = "done" /\ prev # <<>> => ret = prev)
    /\ [][graph' = graph /\ (cache.built => cache' = cache)]_vars

\* a repeated non-empty request has returned a text of several symbols
C8_Witness ==
    /\ Resolved
    /\ prev # <<>>
    /\ Len(BlockNames(ret)) >= 3
    /\ \E n \in Range(BlockNames(ret)) : n \notin Requested

(***************************************************************************)
(* C9  For every non-empty request, every name emitted is a key of the     *)
(* catalog and every requested name that is a key of the catalog is        *)
(* emitted; requested names that are no catalog keys are dropped without   *)
(* an error.                                                               *)
(***************************************************************************)
C9_PermissiveMiss ==
    /\ pc # "error"
    /\ Resolved =>
          /\ Range(HeaderNames(ret)) \subseteq Catalog
          /\ Range(BlockNames(ret)) \subseteq Catalog
          /\ Requested \cap Catalog \subseteq Range(HeaderNames(ret))
          /\ Requested \cap Catalog \subseteq Range(BlockNames(ret))
          /\ (Requested \ Catalog) \cap Range(HeaderNames(ret)) = {}

\* a request mixing a catalog key and an unknown name has been resolved
C9_Witness ==
    /\ Resolved
    /\ "NotARealSymbol" \in Requested
    /\ \E n \in Requested \cap Catalog : n \in Range(HeaderNames(ret))

(***************************************************************************)
(* C10  builder.graph has an entry for every key of the catalog that       *)
(* get_sdk_definitions returns, the symbols cataloged from tecton.types    *)
(* and tecton.aggregation_functions included.                              *)
(***************************************************************************)
C10_GraphCoversCatalog ==
    cache.built => Catalog \subseteq DOMAIN graph

(***************************************************************************)
(* C11  Every endpoint of every dependency edge of builder.graph, the key  *)
(* and each name of its dependency list, is a key of the symbol catalog,   *)
(* and no name of EXCLUDE_NAMES is a key or a dependency.                  *)
(***************************************************************************)
C11_EdgeEndpointsInCatalog ==
    cache.built =>
        \A n \in DOMAIN graph :
            /\ n \in Catalog
            /\ n \notin EXCLUDE_NAMES
            /\ \A d \in Range(graph[n].deps) : d \in Catalog /\ d \notin EXCLUDE_NAMES

(***************************************************************************)
(* The catalogs get_sdk_definitions has handed out                         *)
(***************************************************************************)
\* the tuples the threads hold, and the one the cache holds
Returned ==
    {threads[t].result : t \in {u \in Threads : threads[u].pc = "got"}}
    \cup (IF cache.built THEN {cache} ELSE {})

\* the attribute name of module m passes the tests of lines 32-39
Qualifies(s, m, name) ==
    /\ name \in DOMAIN s[m]
    /\ ~StartsWithUnderscore(name)
    /\ name \notin EXCLUDE_NAMES
    /\ IsClass(s[m][name]) \/ IsFunction(s[m][name])
    /\ StartsWithTecton(s[m][name].module)

\* the first module of MODULES_TO_INSPECT in which name passes the tests
FirstModule(s, name) ==
    MODULES_TO_INSPECT[
        CHOOSE k \in 1..Len(MODULES_TO_INSPECT) :
            /\ Qualifies(s, MODULES_TO_INSPECT[k], name)
            /\ \A j \in 1..(k - 1) : ~Qualifies(s, MODULES_TO_INSPECT[j], name)]

\* the SDK with the source of every object at hand
Healed(s) ==
    [m \in DOMAIN s |-> [n \in DOMAIN s[m] |-> [s[m][n] EXCEPT !.src_ok = TRUE]]]

(***************************************************************************)
(* C12  A catalog holds at most one entry per name, and the entry of a     *)
(* name found in several scanned modules is the one of the first module in *)
(* MODULES_TO_INSPECT order: its kind, module and declaration are those of *)
(* that module's object.                                                   *)
(***************************************************************************)
C12_FirstModuleWins ==
    \A r \in Returned :
        /\ \A i, j \in 1..Len(r.details) :
              r.details[i].name = r.details[j].name => i = j
        /\ \A i \in 1..Len(r.details) :
              LET e == r.details[i]
                  obj == sdk[FirstModule(sdk, e.name)][e.name]
              IN /\ e.type = (IF IsClass(obj) THEN "Class" ELSE "Function")
                 /\ e.module = obj.module
                 /\ e.declaration = CatalogDeclaration(obj, e.name)

\* a thread holds a catalog in which the name A, a class of module tecton and a
\* function of tecton.aggregation_functions, has the entry of the class
C12_Witness ==
    /\ Qualifies(sdk, "tecton", "A")
    /\ Qualifies(sdk, "tecton.aggregation_functions", "A")
    /\ \E t \in Threads :
          /\ threads[t].pc = "got"
          /\ \E i \in 1..Len(threads[t].result.details) :
                /\ threads[t].result.details[i].name = "A"
                /\ threads[t].result.details[i].type = "Class"

(***************************************************************************)
(* C13  Every entry of a catalog is a class or a function whose name does  *)
(* not start with an underscore and is not in EXCLUDE_NAMES, and whose     *)
(* owning module is 'tecton' or a submodule 'tecton.*', the test of        *)
(* is_tecton_type.                                                         *)
(***************************************************************************)
C13_EntriesInNamespace ==
    \A r \in Returned :
        \A i \in 1..Len(r.details) :
            LET e == r.details[i]
            IN /\ e.type \in {"Class", "Function"}
               /\ ~StartsWithUnderscore(e.name)
               /\ e.name \notin EXCLUDE_NAMES
               /\ e.module = "tecton" \/ StartsWithTectonDot(e.module)

(***************************************************************************)
(* C14  When the declaration of a symbol cannot be extracted, the catalog  *)
(* still has the symbol's entry, with its name, kind and module and the    *)
(* placeholder declaration; every other entry, the order of the entries    *)
(* and the name list are those of the build in which no extraction fails.  *)
(***************************************************************************)
C14_ExtractionFailureIsLocal ==
    \A r \in Returned :
        LET whole == get_sdk_definitions(Healed(sdk))
        IN /\ r.all_defs = whole.all_defs
           /\ Len(r.details) = Len(whole.details)
           /\ \A i \in 1..Len(whole.details) :
                 LET w == whole.details[i]
                     obj == sdk[FirstModule(sdk, w.name)][w.name]
                 IN r.details[i] =
                        IF FuncOrClassRaises(obj)
                        THEN [w EXCEPT !.declaration = Placeholder(w.name)]
                        ELSE w

\* a thread holds a catalog with a placeholder entry and an entry with a
\* declaration
C14_Witness ==
    \E t \in Threads :
        /\ threads[t].pc = "got"
        /\ \E i, j \in 1..Len(threads[t].result.details) :
              /\ threads[t].result.details[i].declaration =
                     Placeholder(threads[t].result.details[i].name)
              /\ threads[t].result.details[j].declaration =
                     <<"declaration of ", threads[t].result.details[j].name>>

(***************************************************************************)
(* C15  An error raised for one symbol while the dependency graph is built *)
(* (declaration extraction or type-hint inspection) does not escape        *)
(* APIGraphBuilder(): the build completes and the symbol has an empty      *)
(* dependency list.                                                        *)
(***************************************************************************)
C15_GraphBuildNeverRaises ==
    /\ import_status # "raised"
    /\ import_status = "built" =>
          \A n \in DOMAIN graph :
              (\E a \in DOMAIN sdk["tecton"] :
                    /\ sdk["tecton"][a].name = n
                    /\ ~sdk["tecton"][a].src_ok \/ ~sdk["tecton"][a].hints_ok)
              => graph[n].deps = <<>>

(***************************************************************************)
(* C16  The body of get_sdk_definitions is entered at most once in the     *)
(* process, whatever the threads that call it do, and every caller gets    *)
(* the tuple the cache holds.                                              *)
(***************************************************************************)
C16_SingleBuild ==
    /\ runs <= 1
    /\ \A t \in Threads : threads[t].pc = "got" => threads[t].obj = cache_obj

(***************************************************************************)
(* C17  A call of get_full_sdk_reference changes neither the SDK, nor      *)
(* builder.graph, nor the catalog once it is memoized, nor the request     *)
(* list it was given; the text it returns is the text determined by the    *)
(* request, the catalog and the graph alone, in whatever order it walks.   *)
(***************************************************************************)
\* the text of a call that runs alone
AloneOutput(arg) ==
    LET c == get_sdk_definitions(sdk)
    IN IF Truthy(arg)
       THEN FilteredReference(sdk, c, Closure(InitialFilter(c.details, arg.names)))
       ELSE format_sdk_definitions(sdk, c.details, c.all_defs)

EntryOf(name) ==
    cache.details[CHOOSE i \in 1..Len(cache.details) : cache.details[i].name = name]

C18_BlockShape_AsClaimed ==
    pc = "done" =>
        \A p \in 1..Len(ret) :
            IsBlockTitle(ret[p]) =>
                /\ p + 2 <= Len(ret)
                /\ ret[p] = <<EntryOf(ret[p][3]).type, ": ", ret[p][3]>>
                /\ ret[p + 1] = <<"Import from: ", EntryOf(ret[p][3]).module>>
                /\ ret[p + 2] = EntryOf(ret[p][3]).declaration

(***************************************************************************)
(* C18  The returned text is the header line, one line '- {name}' per      *)
(* matched name in ascending order, a delimiter line, and one block per    *)
(* matched name in the same order.  A block is five lines: '{kind}:        *)
(* {name}'; 'Import from: {import_from} (defined in: {module})', where     *)
(* import_from is 'tecton' when the name is an attribute of module tecton  *)
(* and the defining module otherwise; a line of twenty dashes; the         *)
(* declaration; the delimiter line, which follows every block, the last    *)
(* one included.                                                           *)
(***************************************************************************)
\* the catalog names a returned text is about
Matched == IF Truthy(filter_list) THEN expanded_filter \cap Catalog ELSE Catalog

C18_TextLayout ==
    pc = "done" =>
        LET names == HeaderNames(ret)
            n == Len(names)
        IN /\ Range(names) = Matched
           /\ Ascending(names)
           /\ Len(ret) = 2 + n + 5 * n
           /\ ret[1] = HeaderLine
           /\ \A i \in 1..n : ret[1 + i] = <<"- ", names[i]>>
           /\ ret[n + 2] = DelimiterLine
           /\ \A i \in 1..n :
                 LET p == n + 2 + 5 * (i - 1)
                     e == EntryOf(names[i])
                     import_from == IF names[i] \in DOMAIN sdk["tecton"]
                                    THEN "tecton" ELSE e.module
                 IN /\ ret[p + 1] = <<e.type, ": ", names[i]>>
                    /\ ret[p + 2] = <<"Import from: ", import_from,
                                      " (defined in: ", e.module, ")">>
                    /\ ret[p + 3] = <<"--------------------">>
                    /\ ret[p + 4] = e.declaration
                    /\ ret[p + 5] = DelimiterLine

\* a text with a block of a symbol that is an attribute of module tecton and a
\* block of one that is not has been returned
C18_Witness ==
    /\ Resolved
    /\ \E a, b \in Range(BlockNames(ret)) :
          /\ a \in DOMAIN sdk["tecton"]
          /\ b \notin DOMAIN sdk["tecton"]

(***************************************************************************)
(* C19  register_tecton_feature_service_as_tools never raises: when        *)
(* fetching the workspace, listing its feature services or fetching one of *)
(* them fails, the error is logged and the function returns.               *)
(***************************************************************************)
C19_RegistrationNeverRaises ==
    /\ reg.pc # "raised"
    /\ (reg.pc = "returned"
        /\ (~reg.env.ws_ok \/ ~reg.env.list_ok \/ reg.env.bad # {}))
       => reg.logged

(***************************************************************************)
(* C20  During one resolution no name has its dependency list entered      *)
(* twice: a dependency that is already in the selected set when it is met  *)
(* is not expanded again.                                                  *)
(***************************************************************************)
C20_ExpandedAtMostOnce ==
    /\ rewalked = {}
    /\ \A k \in 1..Len(stack) : stack[k].item_name \in walked
    /\ \A j, k \in 1..Len(stack) : stack[j].item_name = stack[k].item_name => j = k

\* the innermost frame has just passed a dependency that is the name of a frame
\* below it: the name was in the selected set, and being expanded, when it was met
C20_Witness ==
    /\ pc = "closure"
    /\ stack # <<>>
    /\ rewalked = {}
    /\ LET top == stack[Len(stack)]
       IN /\ top.i > 1
          /\ \E k \in 1..(Len(stack) - 1) :
                stack[k].item_name = graph[top.item_name].deps[top.i - 1]

(***************************************************************************)
(* C21  Alias expansion looks at the requested names only: when a name     *)
(* that has an alias is selected without being requested, its alias is     *)
(* emitted only if the alias is in the closure of the requested names,     *)
(* their aliases and the requested family.                                 *)
(***************************************************************************)
\* the names of the header of the returned text
Emitted == Range(HeaderNames(ret))

C21_AliasOfRequestOnly ==
    Resolved =>
        \A n \in (Emitted \cap DOMAIN SYMMETRIC_MAPPINGS) \ Requested :
            SYMMETRIC_MAPPINGS[n] \in Emitted
                => SYMMETRIC_MAPPINGS[n] \in Closure(Seed(Requested))

\* BatchFeatureView was not requested and is emitted, as a dependency; its alias
\* batch_feature_view is in the catalog and is not emitted
C21_Witness ==
    /\ Resolved
    /\ "BatchFeatureView" \in Emitted \ Requested
    /\ "batch_feature_view" \in Catalog \ Emitted

(***************************************************************************)
(* C22  Family expansion looks at the requested names only: when           *)
(* 'Aggregate' is not requested, a symbol of tecton.aggregation_functions  *)
(* is emitted only if it is in the closure of the requested names and      *)
(* their aliases, whether or not 'Aggregate' is selected.                  *)
(***************************************************************************)
C22_FamilyOfRequestOnly ==
    (Resolved /\ "Aggregate" \notin Requested) =>
        Emitted \cap AggregationSymbols \subseteq
            Closure(Requested \cup {SYMMETRIC_MAPPINGS[n] :
                                       n \in Requested \cap DOMAIN SYMMETRIC_MAPPINGS})

\* Aggregate is emitted as a dependency of a requested name, and an aggregation
\* function of the catalog is not
C22_Witness ==
    /\ Resolved
    /\ "Aggregate" \in Emitted \ Requested
    /\ AggregationSymbols \ Emitted # {}

(***************************************************************************)
(* C23  No dependency list of builder.graph contains the name of its own   *)
(* symbol.                                                                 *)
(***************************************************************************)
C23_NoSelfEdge ==
    \A n \in DOMAIN graph : n \notin Range(graph[n].deps)

(***************************************************************************)
(* C24  Once the graph is built, for every class or function of the scope  *)
(* that is no enum and every declared type of its signature: a type of the *)
(* SDK whose name is in scope is among the symbol's dependencies, and so   *)
(* is every alternative of a union that is a type of the SDK whose name is *)
(* in scope.                                                               *)
(***************************************************************************)
\* the types one declared annotation names: the alternatives of a union, or
\* the type itself
Alternatives(param) == IF param.args # <<>> THEN Range(param.args) ELSE {param}

C24_EveryDeclaredTypeHasEdge ==
    import_status = "built" =>
        \A key \in DOMAIN graph :
            LET obj == Scope(from_expressions(sdk))[key]
            IN (~obj.enum /\ (IsClass(obj) \/ IsFunction(obj))) =>
                 \A i \in 1..Len(obj.hints) :
                     \A a \in Alternatives(obj.hints[i]) :
                         (is_tecton_type(a) /\ a.name \in DOMAIN graph)
                             => a.name \in Range(graph[key].deps)

(***************************************************************************)
(* C25  The names emitted for a non-empty request depend on the set of     *)
(* requested names only: whatever order the closure step took the selected *)
(* names in, they are the names emitted for every other request with the   *)
(* same set of names, in any order and with any repetition.                *)
(***************************************************************************)
C25_OrderAndRepetitionIrrelevant ==
    Resolved =>
        \A q \in SeqsUpTo(Requested, MaxReq) :
            Range(q) = Requested
                => Emitted = Range(HeaderNames(AloneOutput(ListArg(q))))

\* a request of two different names, the second of which has an alias or is
\* 'Aggregate', has returned a non-empty selection
C25_Witness ==
    /\ Resolved
    /\ Len(filter_list.names) = 2
    /\ filter_list.names[1] # filter_list.names[2]
    /\ filter_list.names[1] \notin DOMAIN SYMMETRIC_MAPPINGS \cup {"Aggregate"}
    /\ filter_list.names[2] \in DOMAIN SYMMETRIC_MAPPINGS \cup {"Aggregate"}
    /\ Emitted # {}

(***************************************************************************)
(* tecton_utils.py: APIGraphBuilder.build_code                             *)
(*                                                                         *)
(* bc is one call of build_code(names): k is the position of the for loop  *)
(* of line 32, mapped tells whether line 33 has been done for names[k],    *)
(* stack holds the frames of _build_code, and code is the dict of line 31  *)
(* as the sequence of its keys in insertion order.  A stack deeper than    *)
(* MaxDepth is Python's RecursionError.                                    *)
(***************************************************************************)
\* what the utility specifications leave alone
base_vars == <<sdk, graph, cache, cache_obj, runs, import_status, threads, reg,
               call_vars>>

_FCO_NAME_MAP ==
    ( "BatchFeatureView" :> "batch_feature_view"
   @@ "StreamFeatureView" :> "stream_feature_view"
   @@ "RealtimeFeatureView" :> "realtime_feature_view"
   @@ "PandasBatchConfig" :> "pandas_batch_config"
   @@ "PyArrowBatchConfig" :> "pyarrow_batch_config"
   @@ "SparkBatchConfig" :> "spark_batch_config"
   @@ "SparkStreamConfig" :> "spark_stream_config" )

\* _FCO_NAME_MAP.get(name, name)
FcoName(name) == IF name \in DOMAIN _FCO_NAME_MAP THEN _FCO_NAME_MAP[name] ELSE name

\* code after line 42: assigning a key the dict has keeps its position
CodeAtExit(name, code) == IF name \in Range(code) THEN code ELSE Append(code, name)

\* the call _build_code(name, code) made with the frames of b on the stack:
\* it returns at once (line 38), raises KeyError at self.graph[name] (line
\* 40), exceeds the recursion limit, or enters its for loop
_build_code(b, name) ==
    IF name \in Range(b.code) THEN b
    ELSE IF name \notin DOMAIN graph
         THEN [b EXCEPT !.pc = "key_error", !.stack = <<>>]
         ELSE IF Len(b.stack) + 1 > MaxDepth
              THEN [b EXCEPT !.pc = "recursion_error", !.stack = <<>>]
              ELSE [b EXCEPT !.stack = Append(b.stack, Frame(name))]

\* "\n\n".join(code.values()), as the sequence of the joined declarations
Joined(code) == [i \in 1..Len(code) |-> graph[code[i]].declaration]

CodeInit ==
    /\ sdk \in SDKs
    /\ graph = APIGraphBuilder(sdk)
    /\ import_status = "built"
    /\ cache = EmptyCache
    /\ cache_obj = 0
    /\ runs = 0
    /\ threads = [t \in Threads |-> IdleThread]
    /\ reg = RegStart(NoWorkspace)
    /\ CallIdle
    /\ ToolsIdle

\* builder.build_code(names) is called with keys of the graph
build_code(names) ==
    /\ bc.pc = "idle"
    /\ bc' = [BcIdle EXCEPT !.pc = "loop", !.names = names]
    /\ UNCHANGED <<base_vars, repo, docs, examples, test>>

\* the for loop of line 32, between two calls of _build_code: line 33, line 34
\* or the return of line 35
BuildCodeLoop ==
    /\ bc.pc = "loop"
    /\ bc.stack = <<>>
    /\ IF bc.k > Len(bc.names)
       THEN bc' = [bc EXCEPT !.pc = "returned"]
       ELSE LET name == bc.names[bc.k]
            IN IF ~bc.mapped
               THEN bc' = _build_code([bc EXCEPT !.mapped = TRUE], name)
               ELSE bc' = _build_code([bc EXCEPT !.mapped = FALSE, !.k = bc.k + 1],
                                      FcoName(name))
    /\ UNCHANGED <<base_vars, repo, docs, examples, test>>

\* one iteration of the for loop of line 40 in the innermost frame, or line 42
\* and its return
BuildCodeStep ==
    /\ bc.pc = "loop"
    /\ bc.stack # <<>>
    /\ LET top == bc.stack[Len(bc.stack)]
           deps == graph[top.item_name].deps
           rest == SubSeq(bc.stack, 1, Len(bc.stack) - 1)
       IN IF top.i > Len(deps)
          THEN bc' = [bc EXCEPT !.stack = rest,
                                !.code = CodeAtExit(top.item_name, bc.code)]
          ELSE bc' = _build_code(
                        [bc EXCEPT !.stack = Append(rest, [top EXCEPT !.i = top.i + 1])],
                        deps[top.i])
    /\ UNCHANGED <<base_vars, repo, docs, examples, test>>

CodeNext ==
    \/ \E names \in SeqsUpTo(DOMAIN graph, MaxReq) : build_code(names)
    \/ BuildCodeLoop
    \/ BuildCodeStep

CodeSpec == CodeInit /\ [][CodeNext]_vars

(***************************************************************************)
(* C26  build_code, called with keys of the graph, never exceeds the       *)
(* recursion limit, whatever cycles and self-edges the graph has, and no   *)
(* declaration is twice in what it joins.                                  *)
(***************************************************************************)
C26_BuildCodeTerminates ==
    /\ bc.pc # "recursion_error"
    /\ bc.pc = "returned" =>
          \A i, j \in 1..Len(bc.code) :
              Joined(bc.code)[i] = Joined(bc.code)[j] => i = j

(***************************************************************************)
(* utils/repo_utils.py                                                     *)
(*                                                                         *)
(* repo.cloned is _CLONED_REPOS, a function from the cached URLs to the    *)
(* number of the temporary directory of the clone; repo.resolved is the    *)
(* _resolved field of every DirectoryConfig (<<>> for None); repo.exists   *)
(* tells, for every instance, whether its sub_dir exists in a clone of its *)
(* repository; repo.made counts the directories tempfile.mkdtemp has made. *)
(* repo.clones counts, per URL, the clones that succeeded since the cache  *)
(* was last cleared, repo.cleared tells whether it has been cleared, and   *)
(* repo.last describes the last call of resolve_path.                      *)
(***************************************************************************)
MaxClones == 3

\* the DirectoryConfig instances: two directories of one repository, and the
\* root of another
Configs ==
    ( "sample_rift"   :> [remote_url |-> "tecton-sample-repo.git", sub_dir |-> "rift"]
   @@ "sample_spark"  :> [remote_url |-> "tecton-sample-repo.git", sub_dir |-> "spark"]
   @@ "examples_root" :> [remote_url |-> "examples.git", sub_dir |-> ""] )

RemoteUrls == {Configs[c].remote_url : c \in DOMAIN Configs}

None == <<>>

\* line 62 left out: the clone is used and not remembered
StoreClone_Skip(cloned, remote_url, repo_path) == cloned

\* line 62
StoreClone(cloned, remote_url, repo_path) ==
    [u \in DOMAIN cloned \cup {remote_url} |->
        IF u = remote_url THEN repo_path ELSE cloned[u]]

RepoInit ==
    /\ sdk = CHOOSE s \in SDKs : TRUE
    /\ graph = <<>>
    /\ import_status = "unbuilt"
    /\ cache = EmptyCache
    /\ cache_obj = 0
    /\ runs = 0
    /\ threads = [t \in Threads |-> IdleThread]
    /\ reg = RegStart(NoWorkspace)
    /\ CallIdle
    /\ bc = BcIdle
    /\ docs = DocsIdle
    /\ examples = ExamplesIdle
    /\ test = TestIdle
    /\ \E exists \in [DOMAIN Configs -> BOOLEAN] :
          /\ \A c \in DOMAIN Configs : Configs[c].sub_dir = "" => exists[c]
          /\ repo = [RepoIdle EXCEPT
                        !.resolved = [c \in DOMAIN Configs |-> None],
                        !.exists = exists,
                        !.clones = [u \in RemoteUrls |-> 0]]

\* c.resolve_path(); clone_ok tells whether Repo.clone_from succeeds if it is
\* called
resolve_path(c, clone_ok) ==
    LET cfg == Configs[c]
        hit == cfg.remote_url \in DOMAIN repo.cloned
        call == [config |-> c, memo |-> FALSE, hit |-> hit, cloned |-> FALSE,
                 failed |-> FALSE, before |-> repo.cloned, result |-> None,
                 raised |-> FALSE]
    IN
    /\ repo.resolved # <<>>
    /\ IF repo.resolved[c] # None
       THEN \* lines 44-45
            repo' = [repo EXCEPT !.last = [call EXCEPT !.memo = TRUE,
                                                       !.result = repo.resolved[c]]]
       ELSE IF ~hit /\ ~clone_ok
       THEN \* lines 51-61 raise, lines 72-74
            /\ repo.made < MaxClones
            /\ repo' = [repo EXCEPT !.made = repo.made + 1,
                                    !.last = [call EXCEPT !.failed = TRUE]]
       ELSE /\ hit \/ repo.made < MaxClones
            /\ LET repo_path == IF hit THEN repo.cloned[cfg.remote_url]
                                ELSE repo.made + 1
                   cloned == IF hit THEN repo.cloned
                             ELSE StoreClone(repo.cloned, cfg.remote_url, repo_path)
                   candidate == <<repo_path, cfg.sub_dir>>
                   result == IF repo.exists[c] THEN candidate ELSE None
               IN repo' = [repo EXCEPT
                              !.cloned = cloned,
                              !.made = IF hit THEN repo.made ELSE repo.made + 1,
                              !.clones = IF hit THEN repo.clones
                                         ELSE [repo.clones EXCEPT
                                                  ![cfg.remote_url] = @ + 1],
                              !.resolved = [repo.resolved EXCEPT ![c] = result],
                              !.last = [call EXCEPT !.cloned = ~hit,
                                                    !.result = result]]
    /\ UNCHANGED <<base_vars, bc, docs, examples, test>>

\* lines 77-80
clear_repo_cache ==
    /\ repo.resolved # <<>>
    /\ repo.cloned # <<>>
    /\ repo' = [repo EXCEPT !.cloned = <<>>,
                            !.clones = [u \in RemoteUrls |-> 0],
                            !.cleared = TRUE,
                            !.last = <<>>]
    /\ UNCHANGED <<base_vars, bc, docs, examples, test>>

RepoNext ==
    \/ \E c \in DOMAIN Configs, clone_ok \in BOOLEAN : resolve_path(c, clone_ok)
    \/ clear_repo_cache

RepoSpec == RepoInit /\ [][RepoNext]_vars

(***************************************************************************)
(* C27  Between two calls of clear_repo_cache no URL is cloned with        *)
(* success more than once; a call of resolve_path for a URL the cache      *)
(* holds clones nothing, leaves the cache as it is and returns None or a   *)
(* path inside the cached clone, and so does, as long as the cache was     *)
(* never cleared, a call on an instance that was resolved before; and a    *)
(* call whose clone fails returns None without raising and leaves the      *)
(* cache as it is.                                                         *)
(***************************************************************************)
C27_ClonedAtMostOnce ==
    repo.resolved # <<>> =>
        /\ \A u \in RemoteUrls : repo.clones[u] <= 1
        /\ \A u \in DOMAIN repo.cloned : repo.clones[u] = 1
        /\ repo.last # <<>> =>
              LET u == Configs[repo.last.config].remote_url
              IN /\ ~repo.last.raised
                 /\ (repo.last.hit /\ ~repo.last.memo) =>
                       /\ ~repo.last.cloned
                       /\ repo.cloned = repo.last.before
                       /\ repo.last.result # None =>
                             repo.last.result[1] = repo.cloned[u]
                 /\ (repo.last.memo /\ ~repo.cleared) =>
                       /\ u \in DOMAIN repo.cloned
                       /\ repo.cloned = repo.last.before
                       /\ repo.last.result[1] = repo.cloned[u]
                 /\ repo.last.failed =>
                       /\ repo.last.result = None
                       /\ repo.cloned = repo.last.before
                       /\ u \notin DOMAIN repo.cloned

\* the clone of a repository has failed once and succeeded once, and the last
\* call resolved another directory of that repository from the cached clone
C27_Witness ==
    /\ repo.resolved # <<>>
    /\ repo.last # <<>>
    /\ repo.last.config = "sample_spark"
    /\ repo.last.hit
    /\ repo.last.result = <<2, "spark">>
    /\ repo.resolved["sample_rift"] = <<2, "rift">>
    /\ repo.made = 2

(***************************************************************************)
(* tools/documentation_tools.py, scripts/generate_embeddings.py            *)
(*                                                                         *)
(* A version string is Str(chars), chars a sequence of characters, and     *)
(* None is no string.  docs.tecton is the environment: whether "import     *)
(* tecton" succeeds and what tecton.__version__ is (None when the module   *)
(* has no such attribute).                                                 *)
(***************************************************************************)
MaxVersionLen == 4

Str(chars) == [str |-> chars]

Digits == {"0", "1", "2"}
VersionChars == Digits \cup {".", "b"}
DigitValue == ("0" :> 0 @@ "1" :> 1 @@ "2" :> 2)

\* the environments _resolve_docs_db_path is run in
TectonEnvs ==
    {[installed |-> FALSE, version |-> None]}
        \cup {[installed |-> TRUE, version |-> v] :
                 v \in {None} \cup {Str(c) : c \in SeqsUpTo(VersionChars, MaxVersionLen)}}

\* the length of the longest run of digits of chars that starts at position i
RECURSIVE DigitRun(_, _)
DigitRun(chars, i) ==
    IF i > Len(chars) \/ chars[i] \notin Digits THEN 0
    ELSE 1 + DigitRun(chars, i + 1)

\* int() of a string of digits
RECURSIVE ParseInt(_)
ParseInt(digits) ==
    IF digits = <<>> THEN 0
    ELSE 10 * ParseInt(SubSeq(digits, 1, Len(digits) - 1)) + DigitValue[digits[Len(digits)]]

\* the second group with "(\d)" in place of "(\d+)"
Group2_OneDigit(chars, start, run) == SubSeq(chars, start, start)

\* the second group of the pattern of line 39, a run of digits of length run
\* that starts at position start
Group2(chars, start, run) == SubSeq(chars, start, start + run - 1)

\* re.match(r"^(\d+)\.(\d+)", version): None, or the two groups.  "\d+" is
\* greedy and what follows it is no digit, so each group is a longest run.
ReMatch(chars) ==
    LET n1 == DigitRun(chars, 1)
        n2 == DigitRun(chars, n1 + 2)
    IN IF n1 >= 1 /\ Len(chars) > n1 /\ chars[n1 + 1] = "." /\ n2 >= 1
       THEN <<SubSeq(chars, 1, n1), Group2(chars, n1 + 2, n2)>>
       ELSE None

\* the db_filename values of DOC_VERSIONS, lines 20-42 of generate_embeddings.py
DOC_VERSIONS ==
    << [name |-> "latest", db_filename |-> "tecton_docs.db"],
       [name |-> "1.1", db_filename |-> "tecton_docs_1.1.db"],
       [name |-> "1.0", db_filename |-> "tecton_docs_1.0.db"] >>

DocsInit ==
    /\ sdk = CHOOSE s \in SDKs : TRUE
    /\ graph = <<>>
    /\ import_status = "unbuilt"
    /\ cache = EmptyCache
    /\ cache_obj = 0
    /\ runs = 0
    /\ threads = [t \in Threads |-> IdleThread]
    /\ reg = RegStart(NoWorkspace)
    /\ CallIdle
    /\ bc = BcIdle
    /\ repo = RepoIdle
    /\ examples = ExamplesIdle
    /\ test = TestIdle
    /\ \E env \in TectonEnvs : docs = [DocsIdle EXCEPT !.tecton = env]

\* lines 19-27, called at line 31
_get_installed_tecton_version ==
    /\ docs.pc = "start"
    /\ docs' = [docs EXCEPT
                   !.pc = "resolve",
                   !.version = IF docs.tecton.installed THEN docs.tecton.version
                               ELSE None]
    /\ UNCHANGED <<base_vars, bc, repo, examples, test>>

\* lines 33-50; the path is FILE_DIR/data/db_filename
_resolve_docs_db_path ==
    /\ docs.pc = "resolve"
    /\ LET version == docs.version
           match == IF version # None /\ version.str # <<>>
                    THEN ReMatch(version.str) ELSE None
           major == ParseInt(match[1])
           minor == ParseInt(match[2])
           db_filename ==
               IF match = None THEN "tecton_docs.db"
               ELSE IF major = 1 /\ minor = 1 THEN "tecton_docs_1.1.db"
               ELSE IF major = 1 /\ minor = 0 THEN "tecton_docs_1.0.db"
               ELSE "tecton_docs.db"
       IN docs' = [docs EXCEPT !.pc = "done", !.db_filename = db_filename]
    /\ UNCHANGED <<base_vars, bc, repo, examples, test>>

DocsNext ==
    \/ _get_installed_tecton_version
    \/ _resolve_docs_db_path

DocsSpec == DocsInit /\ [][DocsNext]_vars

(***************************************************************************)
(* C28  The file selected is tecton_docs_1.1.db exactly when tecton is     *)
(* installed with a version of major 1 and minor 1, tecton_docs_1.0.db     *)
(* exactly when it is installed with a version of major 1 and minor 0, and *)
(* tecton_docs.db in every other case; and the file selected is a          *)
(* db_filename of DOC_VERSIONS.                                            *)
(***************************************************************************)
\* a sequence of n zeros
Zeros(n) == [i \in 1..n |-> "0"]

\* the version string v begins with the number major, a dot and the number
\* minor (one digit each, after any leading zeros), and the number minor ends
\* there
IsVersion(v, major, minor) ==
    /\ v # None
    /\ \E i, j \in 0..Len(v.str) :
          LET c == v.str
              k == i + j + 3
          IN /\ Len(c) >= k
             /\ SubSeq(c, 1, i) = Zeros(i)
             /\ c[i + 1] = major
             /\ c[i + 2] = "."
             /\ SubSeq(c, i + 3, k - 1) = Zeros(j)
             /\ c[k] = minor
             /\ (Len(c) = k \/ c[k + 1] \notin Digits)

Installed(major, minor) ==
    docs.tecton.installed /\ IsVersion(docs.tecton.version, major, minor)

C28_DocsDbByVersion ==
    docs.pc = "done" =>
        /\ docs.db_filename = "tecton_docs_1.1.db" <=> Installed("1", "1")
        /\ docs.db_filename = "tecton_docs_1.0.db" <=> Installed("1", "0")
        /\ docs.db_filename = "tecton_docs.db"
              <=> ~Installed("1", "1") /\ ~Installed("1", "0")
        /\ \E i \in 1..Len(DOC_VERSIONS) :
              DOC_VERSIONS[i].db_filename = docs.db_filename

\* version 1.10 has been resolved to the default file
C28_Witness ==
    /\ docs.pc = "done"
    /\ docs.tecton.installed
    /\ docs.tecton.version = Str(<<"1", ".", "1", "0">>)
    /\ docs.db_filename = "tecton_docs.db"

(***************************************************************************)
(* tools/example_code_snippet_tools.py: load_example_code_snippet_index    *)
(*                                                                         *)
(* examples.env is the environment of the call: whether "import tecton"    *)
(* and tecton.conf.get_or_none succeed, what the compute mode is (None or  *)
(* a string), and which of the two databases exist on disk.                *)
(***************************************************************************)
\* str.lower() on the letters the compute modes are written with
LowerChar ==
    ( "S" :> "s" @@ "P" :> "p" @@ "A" :> "a" @@ "R" :> "r" @@ "K" :> "k"
   @@ "s" :> "s" @@ "p" :> "p" @@ "a" :> "a" @@ "r" :> "r" @@ "k" :> "k"
   @@ "i" :> "i" @@ "f" :> "f" @@ "t" :> "t" )

Lower(chars) == [i \in 1..Len(chars) |-> LowerChar[chars[i]]]

ComputeModes ==
    { None,
      Str(<<>>),
      Str(<<"s", "p", "a", "r", "k">>),
      Str(<<"S", "P", "A", "R", "K">>),
      Str(<<"S", "p", "a", "r", "k">>),
      Str(<<"s", "p", "a", "r", "k", "s">>),
      Str(<<"r", "i", "f", "t">>),
      Str(<<"R", "i", "f", "t">>) }

ExampleEnvs ==
    [conf_ok : BOOLEAN, compute_mode : ComputeModes,
     spark_exists : BOOLEAN, rift_exists : BOOLEAN]

\* the names bound in the function when line 43 is evaluated, and the names of
\* the module: lines 6-13, 16 and 51
LocalNames ==
    {"tecton", "compute_mode", "db_name", "spark_path", "rift_path",
     "spark_db", "rift_db"}
GlobalNames ==
    {"os", "shutil", "pd", "lru_cache", "FILE_DIR", "VectorDB",
     "get_embedding_model", "load_example_code_snippet_index",
     "build_and_save_example_code_snippet_index"}
Bound(name) == name \in LocalNames \cup GlobalNames

ExamplesInit ==
    /\ sdk = CHOOSE s \in SDKs : TRUE
    /\ graph = <<>>
    /\ import_status = "unbuilt"
    /\ cache = EmptyCache
    /\ cache_obj = 0
    /\ runs = 0
    /\ threads = [t \in Threads |-> IdleThread]
    /\ reg = RegStart(NoWorkspace)
    /\ CallIdle
    /\ bc = BcIdle
    /\ repo = RepoIdle
    /\ docs = DocsIdle
    /\ test = TestIdle
    /\ \E env \in ExampleEnvs : examples = [ExamplesIdle EXCEPT !.env = env]

\* lines 20-30
ChooseDbName ==
    /\ examples.pc = "start"
    /\ LET compute_mode == examples.env.compute_mode
           is_spark == /\ examples.env.conf_ok
                       /\ compute_mode # None
                       /\ compute_mode.str # <<>>
                       /\ Lower(compute_mode.str) = <<"s", "p", "a", "r", "k">>
       IN examples' = [examples EXCEPT
                          !.pc = "spark_path",
                          !.db_name = IF is_spark THEN "tecton_examples_spark.db"
                                      ELSE "tecton_examples_rift.db"]
    /\ UNCHANGED <<base_vars, bc, repo, docs, test>>

\* lines 32-34
CheckSparkPath ==
    /\ examples.pc = "spark_path"
    /\ examples' = IF examples.env.spark_exists
                   THEN [examples EXCEPT !.pc = "rift_path"]
                   ELSE [examples EXCEPT !.pc = "raised",
                                         !.outcome = "FileNotFoundError"]
    /\ UNCHANGED <<base_vars, bc, repo, docs, test>>

\* lines 36-38
CheckRiftPath ==
    /\ examples.pc = "rift_path"
    /\ examples' = IF examples.env.rift_exists
                   THEN [examples EXCEPT !.pc = "open"]
                   ELSE [examples EXCEPT !.pc = "raised",
                                         !.outcome = "FileNotFoundError"]
    /\ UNCHANGED <<base_vars, bc, repo, docs, test>>

\* lines 40-49: both databases are opened, then the decorator expression
\* "vdb.retriever(...)" of line 43 is evaluated
MakeRetriever ==
    /\ examples.pc = "open"
    /\ examples' = IF Bound("vdb")
                   THEN [examples EXCEPT !.pc = "returned", !.outcome = "retriever"]
                   ELSE [examples EXCEPT !.pc = "raised", !.outcome = "NameError"]
    /\ UNCHANGED <<base_vars, bc, repo, docs, test>>

ExamplesNext ==
    \/ ChooseDbName
    \/ CheckSparkPath
    \/ CheckRiftPath
    \/ MakeRetriever

ExamplesSpec == ExamplesInit /\ [][ExamplesNext]_vars

(***************************************************************************)
(* C29  When both example databases exist, the call does not raise and     *)
(* returns a retriever, over the Spark database when the compute mode      *)
(* reads 'spark' in any letter case and over the Rift database otherwise.  *)
(***************************************************************************)
C29_RetrieverByComputeMode ==
    (examples.pc \in {"open", "returned", "raised"}
        /\ examples.env.spark_exists /\ examples.env.rift_exists) =>
        /\ examples.pc # "raised"
        /\ examples.pc = "returned" =>
              /\ examples.outcome = "retriever"
              /\ examples.db_name =
                    IF /\ examples.env.conf_ok
                       /\ examples.env.compute_mode \in
                             {Str(<<"s", "p", "a", "r", "k">>),
                              Str(<<"S", "P", "A", "R", "K">>),
                              Str(<<"S", "p", "a", "r", "k">>)}
                    THEN "tecton_examples_spark.db"
                    ELSE "tecton_examples_rift.db"

(***************************************************************************)
(* tests/integration/runner.py, tests/integration/test_case.py             *)
(*                                                                         *)
(* test.config is the TestCaseConfig of the case (expected_prompt_response *)
(* as whether it is a non-empty string); test.env is what the call meets:  *)
(* whether the case has an expected repository, whether the prompt         *)
(* execution succeeds, whether the expected response is found in the       *)
(* output, what validate_tecton_plan and evaluate_result return, and       *)
(* whether a step raises.                                                  *)
(***************************************************************************)
TestCaseConfigs ==
    [evaluation_threshold : {0, 70, 101},
     tecton_plan_should_pass : BOOLEAN,
     expected_prompt_response : BOOLEAN]

TestEnvs ==
    [has_expected_repo : BOOLEAN, exec_ok : BOOLEAN, found : BOOLEAN,
     tecton_plan_passed : BOOLEAN, score : {0, 69, 70, 100}, raises : BOOLEAN]

\* TestResult(...), lines 21-32: tecton_plan_passed is False unless given
TestResult(success, score, test_type) ==
    [success |-> success, score |-> score, tecton_plan_passed |-> FALSE,
     test_type |-> test_type]

RunnerInit ==
    /\ sdk = CHOOSE s \in SDKs : TRUE
    /\ graph = <<>>
    /\ import_status = "unbuilt"
    /\ cache = EmptyCache
    /\ cache_obj = 0
    /\ runs = 0
    /\ threads = [t \in Threads |-> IdleThread]
    /\ reg = RegStart(NoWorkspace)
    /\ CallIdle
    /\ bc = BcIdle
    /\ repo = RepoIdle
    /\ docs = DocsIdle
    /\ examples = ExamplesIdle
    /\ \E config \in TestCaseConfigs, env \in TestEnvs :
          test = [TestIdle EXCEPT !.config = config, !.env = env]

\* lines 62-72, called at line 227
determine_test_type ==
    /\ test.pc = "start"
    /\ test' = [test EXCEPT !.pc =
                   IF test.config.expected_prompt_response THEN "simple"
                   ELSE IF test.env.has_expected_repo THEN "integration"
                   ELSE "simple"]
    /\ UNCHANGED <<base_vars, bc, repo, docs, examples>>

\* lines 74-145; an empty expected response is found in every output
run_simple_test ==
    /\ test.pc = "simple"
    /\ LET response_matches == ~test.config.expected_prompt_response \/ test.env.found
           result == IF test.env.raises \/ ~test.env.exec_ok
                     THEN TestResult(FALSE, 0, "simple")
                     ELSE IF response_matches
                          THEN TestResult(TRUE, 100, "simple")
                          ELSE TestResult(FALSE, 0, "simple")
       IN test' = [test EXCEPT !.pc = "done", !.result = result]
    /\ UNCHANGED <<base_vars, bc, repo, docs, examples>>

\* lines 147-223
run_integration_test ==
    /\ test.pc = "integration"
    /\ LET score == test.env.score
           tecton_plan_passed == test.env.tecton_plan_passed
           test_success ==
               /\ score >= test.config.evaluation_threshold
               /\ (tecton_plan_passed \/ ~test.config.tecton_plan_should_pass)
           result == IF test.env.raises \/ ~test.env.exec_ok
                        \/ ~test.env.has_expected_repo
                     THEN TestResult(FALSE, 0, "integration")
                     ELSE [TestResult(test_success, score, "integration") EXCEPT
                              !.tecton_plan_passed = tecton_plan_passed]
       IN test' = [test EXCEPT !.pc = "done", !.result = result]
    /\ UNCHANGED <<base_vars, bc, repo, docs, examples>>

RunnerNext ==
    \/ determine_test_type
    \/ run_simple_test
    \/ run_integration_test

RunnerSpec == RunnerInit /\ [][RunnerNext]_vars

(***************************************************************************)
(* C30  Every result of run_test_case that reports success has a score of  *)
(* at least the evaluation_threshold of its case and, when the case has    *)
(* tecton_plan_should_pass set, has tecton_plan_passed true.               *)
(***************************************************************************)
C30_SuccessMeetsThresholdAndPlan ==
    (test.pc = "done" /\ test.result.success) =>
        /\ test.result.score >= test.config.evaluation_threshold
        /\ test.config.tecton_plan_should_pass => test.result.tecton_plan_passed

====
